---- MODULE Spec2Model ----
(***************************************************************************)
(* Speech activity detection pipeline                                      *)
(* (pyannote/audio/pipeline/speech_activity_detection.py).                 *)
(*                                                                         *)
(* Fixed-point conventions: scores and thresholds are integers in tenths   *)
(* (One = 1.0), times are integers in seconds, a missing value (numpy nan) *)
(* is the integer NaN, which is outside every set of real scores.          *)
(***************************************************************************)
EXTENDS Integers, Sequences, FiniteSets, TLC

VARIABLES
    ctor,          \* outcome of SpeechActivityDetection.__init__
    precomputed,   \* self.precomputed is not None
    pretrained,    \* self.pretrained is not None
    has_pretrained,\* the attribute self._pretrained exists
    hp,            \* the six hyper-parameters (self.onset, ...)
    binarize,      \* self._binarize (NoBinarize: attribute not set)
    log_scale_,    \* self.log_scale_ ("absent": attribute not set)
    last,          \* what the last __call__ did (its locals and its result)
    fx,            \* inputs of the experiment of a specification (SpecBin,
                   \* SpecConc, SpecOracle)
    fy             \* what the experiment, or the operations of SpecOps, did

vars == <<ctor, precomputed, pretrained, has_pretrained, hp, binarize,
          log_scale_, last, fx, fy>>

pipeVars == <<ctor, precomputed, pretrained, has_pretrained, hp, binarize,
              log_scale_, last>>

funVars == <<fx, fy>>

-----------------------------------------------------------------------------
(* Bounds *)

\* longest score curve (in windows) a pipeline call is given
MaxWindows == 2

\* longest speech-probability curve the binarizer experiment is given
MaxLen == 4

-----------------------------------------------------------------------------
(* Numbers *)

\* numpy nan: a missing score
NaN == -999

\* 1.0 in tenths
One == 10

\* Uniform(0., 1.): onset, offset
ThresholdMin == 0
ThresholdMax == 10

\* Uniform(0., 2.): min_duration_on, min_duration_off (seconds)
DurationMin == 0
DurationMax == 2

\* Uniform(-1., 1.): pad_onset, pad_offset (seconds)
PadMin == -1
PadMax == 1

\* np.exp on the grid of tenths: round(10 * exp(v / 10)); nan stays nan
Exp(v) ==
    CASE v = NaN -> NaN
      [] v = -20 -> 1
      [] v = -10 -> 4
      [] v = -6  -> 5
      [] v = -3  -> 7
      [] v = 0   -> 10
      [] v = 3   -> 13
      [] v = 6   -> 18
      [] v = 10  -> 27

\* a faulty OneMinus: a missing value is read as 0
OneMinusNanZero(v) == IF v = NaN THEN One ELSE One - v

\* 1. - v; nan stays nan
OneMinus(v) == IF v = NaN THEN NaN ELSE One - v

\* v >= t and v <= t as numpy compares them: any comparison with nan is false
Geq(v, t) == v # NaN /\ v >= t
Leq(v, t) == v # NaN /\ v <= t

RECURSIVE SeqSum(_)
SeqSum(s) == IF s = <<>> THEN 0 ELSE Head(s) + SeqSum(Tail(s))

\* all the components of a 2-D array, row after row
RECURSIVE Flatten(_)
Flatten(rows) == IF rows = <<>> THEN <<>> ELSE Head(rows) \o Flatten(Tail(rows))

Finite(s) == SelectSeq(s, LAMBDA v : v # NaN)

\* np.nanmean(data) < 0: the mean of the finite components is negative. The
\* mean of no value at all is nan, and nan < 0 is false. The mean has the sign
\* of the sum.
NanMeanNegative(data) ==
    LET f == Finite(Flatten(data))
    IN  Len(f) > 0 /\ SeqSum(f) < 0

-----------------------------------------------------------------------------
(* Score curves: SlidingWindowFeature(data, sliding_window).  data is a     *)
(* sequence of rows (one per window) of dim components each; sw is the     *)
(* step and duration of the sliding window, which starts at time 0.        *)

NoCurve == [data |-> <<>>, dim |-> 0, sw |-> 0]

IsNone(c) == c.dim = 0

RECURSIVE SeqsUpTo(_, _)
SeqsUpTo(S, n) ==
    IF n = 0 THEN {<<>>}
    ELSE LET shorter == SeqsUpTo(S, n - 1)
         IN  shorter \cup {Append(s, x) : s \in {t \in shorter : Len(t) = n - 1}, x \in S}

SlidingWindowFeature(data, dim, sw) == [data |-> data, dim |-> dim, sw |-> sw]

-----------------------------------------------------------------------------
(* Binarize (pyannote.audio.utils.signal), as section 4.3 of the            *)
(* specification describes it.  A region is <<start, end>>, in seconds.    *)

Start(r) == r[1]
End(r) == r[2]
Duration(r) == r[2] - r[1]

Max(a, b) == IF a >= b THEN a ELSE b
Min(a, b) == IF a <= b THEN a ELSE b
Clip(t, total) == Max(0, Min(total, t))

\* steps 1-4: the scan. i is the next window (1-based), active the state,
\* start the provisional start of the open region, acc the closed regions
RECURSIVE Scan(_, _, _, _, _, _, _)
Scan(b, values, sw, i, active, start, acc) ==
    IF i > Len(values)
    THEN IF active THEN Append(acc, <<start, Len(values) * sw>>) ELSE acc
    ELSE LET y == values[i]
             t == (i - 1) * sw
         IN  IF active
             THEN IF Leq(y, b.offset)
                  THEN Scan(b, values, sw, i + 1, FALSE, start, Append(acc, <<start, t>>))
                  ELSE Scan(b, values, sw, i + 1, TRUE, start, acc)
             ELSE IF Geq(y, b.onset)
                  THEN Scan(b, values, sw, i + 1, TRUE, t, acc)
                  ELSE Scan(b, values, sw, i + 1, FALSE, start, acc)

Candidates(b, values, sw) == Scan(b, values, sw, 1, FALSE, 0, <<>>)

\* step 5: padding, clipped to [0, total]; a region left with no length is removed
PadOne(b, r, total) ==
    <<Clip(Start(r) - b.pad_onset, total), Clip(End(r) + b.pad_offset, total)>>

Pad(b, regions, total) ==
    SelectSeq([i \in 1..Len(regions) |-> PadOne(b, regions[i], total)],
              LAMBDA r : End(r) > Start(r))

\* step 6: a gap shorter than min_duration_off is filled
RECURSIVE MergeInto(_, _, _)
MergeInto(b, acc, regions) ==
    IF regions = <<>> THEN acc
    ELSE LET r == Head(regions)
             n == Len(acc)
         IN  IF n > 0 /\ Start(r) - End(acc[n]) < b.min_duration_off
             THEN MergeInto(b, [acc EXCEPT ![n] = <<Start(acc[n]), Max(End(acc[n]), End(r))>>],
                            Tail(regions))
             ELSE MergeInto(b, Append(acc, r), Tail(regions))

Merge(b, regions) == MergeInto(b, <<>>, regions)

\* step 7: a region shorter than min_duration_on is dropped
Filter(b, regions) == SelectSeq(regions, LAMBDA r : Duration(r) >= b.min_duration_on)

\* Binarize.apply: every stage of it; .speech is what it returns
BinarizeApply(b, prob) ==
    LET values == [i \in 1..Len(prob.data) |-> prob.data[i][1]]
        total  == Len(prob.data) * prob.sw
        cand   == Candidates(b, values, prob.sw)
        padded == Pad(b, cand, total)
        merged == Merge(b, padded)
    IN  [cand |-> cand, padded |-> padded, merged |-> merged,
         speech |-> Filter(b, merged)]

NoStages == [cand |-> <<>>, padded |-> <<>>, merged |-> <<>>, speech |-> <<>>]

-----------------------------------------------------------------------------
(* SpeechActivityDetection *)

HyperParameters(on, off, mon, moff, pon, poff) ==
    [onset |-> on, offset |-> off, min_duration_on |-> mon,
     min_duration_off |-> moff, pad_onset |-> pon, pad_offset |-> poff]

\* the attribute self._binarize does not exist
NoBinarize == HyperParameters(NaN, NaN, NaN, NaN, NaN, NaN)

\* __init__: the names Pretrained and torch are bound nowhere in the module
\* (they are not imported), so evaluating either branch of the pretrained
\* case raises NameError; self._pretrained is then never assigned
Construct(precomputed_arg, scores_arg, pretrained_arg) ==
    [precomputed    |-> IF scores_arg THEN TRUE ELSE precomputed_arg,
     pretrained     |-> pretrained_arg,
     has_pretrained |-> FALSE,
     ctor           |-> IF pretrained_arg THEN "NameError" ELSE "ok"]

\* faulty variants of initialize: two keyword arguments exchanged
initializeThresholdsSwapped(h) ==
    HyperParameters(h.offset, h.onset, h.min_duration_on, h.min_duration_off,
                    h.pad_onset, h.pad_offset)

initializeDurationsSwapped(h) ==
    HyperParameters(h.onset, h.offset, h.min_duration_off, h.min_duration_on,
                    h.pad_onset, h.pad_offset)

initializePadsSwapped(h) ==
    HyperParameters(h.onset, h.offset, h.min_duration_on, h.min_duration_off,
                    h.pad_offset, h.pad_onset)

\* initialize(): the binarizer built from the current hyper-parameters
initialize(h) ==
    [onset            |-> h.onset,
     offset           |-> h.offset,
     min_duration_on  |-> h.min_duration_on,
     min_duration_off |-> h.min_duration_off,
     pad_onset        |-> h.pad_onset,
     pad_offset       |-> h.pad_offset]

\* __call__, lines 149-158: where the scores come from.  file.sad_scores is
\* the curve attached to the record, file.in_store what the precomputed store
\* returns for the file, file.inferred what the pretrained model returns
ResolveScores(precomp, hasPre, file) ==
    IF ~IsNone(file.sad_scores)
    THEN [raised |-> "", scores |-> file.sad_scores, consulted |-> {},
          source |-> "sad_scores"]
    ELSE IF ~precomp
         THEN IF ~hasPre
              THEN [raised |-> "AttributeError", scores |-> NoCurve,
                    consulted |-> {}, source |-> ""]
              ELSE [raised |-> "", scores |-> file.inferred,
                    consulted |-> {"pretrained"}, source |-> "pretrained"]
         ELSE [raised |-> "", scores |-> file.in_store,
               consulted |-> {"precomputed"}, source |-> "precomputed"]

\* a faulty LogScale: the check is made again by every call
LogScaleEveryCall(flag, scores) ==
    IF NanMeanNegative(scores.data) THEN "true" ELSE "false"

\* a faulty Convert: no score is ever exponentiated
ConvertNever(flag, scores) == scores.data

\* lines 166-172: the value of self.log_scale_ after the check
LogScale(flag, scores) ==
    IF flag = "absent"
    THEN IF NanMeanNegative(scores.data) THEN "true" ELSE "false"
    ELSE flag

\* lines 174-175: data
Convert(flag, scores) ==
    IF flag = "true"
    THEN [i \in 1..Len(scores.data) |->
            [j \in 1..Len(scores.data[i]) |-> Exp(scores.data[i][j])]]
    ELSE scores.data

\* a faulty SpeechProb: the last component is taken for the first
SpeechProbLastColumn(data, scores) ==
    IF scores.dim > 1
    THEN SlidingWindowFeature(
             [i \in 1..Len(data) |-> <<OneMinus(data[i][Len(data[i])])>>],
             1, scores.sw)
    ELSE SlidingWindowFeature(data, scores.dim, scores.sw)

\* lines 177-181: speech_prob
SpeechProb(data, scores) ==
    IF scores.dim > 1
    THEN SlidingWindowFeature([i \in 1..Len(data) |-> <<OneMinus(data[i][1])>>],
                              1, scores.sw)
    ELSE SlidingWindowFeature(data, scores.dim, scores.sw)

NoCall ==
    [called |-> FALSE, file |-> [uri |-> "", sad_scores |-> NoCurve,
                                 in_store |-> NoCurve, inferred |-> NoCurve],
     raised |-> "", message_uri |-> "", consulted |-> {}, source |-> "",
     scores |-> NoCurve, flag_before |-> "absent", flag |-> "absent",
     data |-> <<>>, speech_prob |-> NoCurve, binarizer |-> NoBinarize,
     stages |-> NoStages, returned |-> FALSE, uri |-> "", speech |-> <<>>]

\* __call__: the locals of the call, the exception it raised ("" if none), the
\* value it leaves in self.log_scale_ (flag) and the annotation it returned
call(precomp, hasPre, flag, bin, file) ==
    LET got  == ResolveScores(precomp, hasPre, file)
        base == [NoCall EXCEPT !.called = TRUE, !.file = file,
                               !.flag_before = flag, !.flag = flag,
                               !.consulted = got.consulted]
    IN  IF got.raised # ""
        THEN [base EXCEPT !.raised = got.raised]
        ELSE IF IsNone(got.scores)
        THEN [base EXCEPT !.raised = "ValueError", !.message_uri = file.uri]
        ELSE LET after == LogScale(flag, got.scores)
                 data  == Convert(after, got.scores)
                 prob  == SpeechProb(data, got.scores)
                 found == [base EXCEPT !.source = got.source, !.scores = got.scores,
                                       !.flag = after, !.data = data,
                                       !.speech_prob = prob]
             IN  IF bin = NoBinarize
                 THEN [found EXCEPT !.raised = "AttributeError"]
                 ELSE LET st == BinarizeApply(bin, prob)
                      IN  [found EXCEPT !.binarizer = bin, !.stages = st,
                                        !.returned = TRUE, !.uri = file.uri,
                                        !.speech = st.speech]

-----------------------------------------------------------------------------
(* Inputs of the pipeline's specification *)

PipeValues == {-6, 6}

PipeRows2 == {<<-20, -3>>, <<3, 6>>}

\* curves with missing values: nothing but nan, and nan beside a score
PipeMissing ==
    {SlidingWindowFeature(<<(<<NaN>>)>>, 1, 1),
     SlidingWindowFeature(<<(<<NaN>>), (<<-6>>)>>, 1, 1),
     SlidingWindowFeature(<<(<<6, NaN>>)>>, 2, 1),
     SlidingWindowFeature(<<(<<NaN, NaN>>)>>, 2, 1)}

\* a curve on a sliding window of 2 s
PipeCoarse ==
    {SlidingWindowFeature(<<(<<-20, -3>>), (<<3, 6>>)>>, 2, 2)}

PipeCurves ==
    {SlidingWindowFeature(d, 1, 1) : d \in SeqsUpTo({<<v>> : v \in PipeValues}, MaxWindows)}
    \cup {SlidingWindowFeature(d, 2, 1) : d \in SeqsUpTo(PipeRows2, MaxWindows)}
    \cup PipeMissing \cup PipeCoarse

StoreCurve == SlidingWindowFeature(<<(<<-6>>), (<<NaN>>)>>, 1, 1)

ModelCurve == SlidingWindowFeature(<<(<<3, 6>>)>>, 2, 1)

Uris == {"f1", "f2"}

Files ==
    [uri : Uris, sad_scores : PipeCurves \cup {NoCurve},
     in_store : {NoCurve, StoreCurve}, inferred : {ModelCurve}]

PipeParams ==
    {HyperParameters(5, 5, 0, 0, 0, 0), HyperParameters(6, 3, 2, 1, 1, -1)}

NoExperiment == [hp |-> NoBinarize, prob |-> NoCurve]

NoOutcome == [phase |-> "none", out |-> NoStages, hp2 |-> NoBinarize, out2 |-> NoStages]

-----------------------------------------------------------------------------
(* The pipeline as a state machine *)

Init ==
    /\ \E pa \in BOOLEAN, sa \in BOOLEAN, pr \in BOOLEAN :
          LET self == Construct(pa, sa, pr)
          IN  /\ ctor = self.ctor
              /\ precomputed = self.precomputed
              /\ pretrained = self.pretrained
              /\ has_pretrained = self.has_pretrained
    /\ hp \in PipeParams
    /\ binarize = NoBinarize
    /\ log_scale_ = "absent"
    /\ last = NoCall
    /\ fx = NoExperiment
    /\ fy = NoOutcome

\* the parameter framework assigns values to the hyper-parameters
SetParams ==
    /\ ctor = "ok"
    /\ \E h \in PipeParams : hp' = h
    /\ UNCHANGED <<ctor, precomputed, pretrained, has_pretrained, binarize,
                   log_scale_, last, funVars>>

Initialize ==
    /\ ctor = "ok"
    /\ binarize' = initialize(hp)
    /\ UNCHANGED <<ctor, precomputed, pretrained, has_pretrained, hp,
                   log_scale_, last, funVars>>

Call ==
    /\ ctor = "ok"
    /\ \E file \in Files :
          LET c == call(precomputed, has_pretrained, log_scale_, binarize, file)
          IN  /\ last' = c
              /\ log_scale_' = c.flag
    /\ UNCHANGED <<ctor, precomputed, pretrained, has_pretrained, hp, binarize,
                   funVars>>

Next == SetParams \/ Initialize \/ Call

Spec == Init /\ [][Next]_vars

-----------------------------------------------------------------------------
(* Claims about the pipeline *)

Obtained(c) == c.called /\ ~IsNone(c.scores)

Exponentiated(c) ==
    /\ Len(c.data) = Len(c.scores.data)
    /\ \A i \in 1..Len(c.data) :
          /\ Len(c.data[i]) = Len(c.scores.data[i])
          /\ \A j \in 1..Len(c.data[i]) : c.data[i][j] = Exp(c.scores.data[i][j])

\* C1 (as claimed): a pipeline configured with a pretrained model can be built
\* and called; in every call the attached curve is used as it is and no other
\* source is consulted; without one the precomputed store is queried if a
\* location was configured; otherwise the pretrained model is run; the curve
\* binarized is the one of the source consulted
C1_PriorityOrder ==
    /\ pretrained => ctor = "ok"
    /\ last.called =>
        /\ ~IsNone(last.file.sad_scores) =>
              /\ last.consulted = {}
              /\ last.scores = last.file.sad_scores
        /\ (IsNone(last.file.sad_scores) /\ precomputed) =>
              /\ last.consulted = {"precomputed"}
              /\ last.scores = last.file.in_store
        /\ (IsNone(last.file.sad_scores) /\ ~precomputed) =>
              /\ last.consulted = {"pretrained"}
              /\ last.scores = last.file.inferred
        /\ last.returned => last.speech_prob.sw = last.scores.sw

\* no source the pipeline was configured with yields a curve for the file
NothingYields(file) ==
    /\ IsNone(file.sad_scores)
    /\ precomputed => IsNone(file.in_store)
    /\ (~precomputed /\ pretrained) => IsNone(file.inferred)

\* C2 (as claimed): in every configuration, a call for which no source yields
\* a curve raises the ValueError that names the file's uri, returns no
\* annotation and has asked no source twice
C2_ScoreUnavailable ==
    (last.called /\ NothingYields(last.file)) =>
        /\ last.raised = "ValueError"
        /\ last.message_uri = last.file.uri
        /\ ~last.returned
        /\ Cardinality(last.consulted) <= 1

\* C3: log_scale_ is absent until a call obtains a curve, that call sets it
\* from the sign of the mean of its curve, no step changes it once it is set,
\* and every call converts its curve by the value the flag then has
C3_FlagSetOnce ==
    [][/\ log_scale_ # "absent" => log_scale_' = log_scale_
       /\ (log_scale_ = "absent" /\ log_scale_' # "absent") =>
             /\ Obtained(last')
             /\ last'.flag_before = "absent"
             /\ log_scale_' = IF NanMeanNegative(last'.scores.data)
                              THEN "true" ELSE "false"
       /\ (log_scale_ = "absent" /\ last' # last /\ Obtained(last')) =>
             log_scale_' # "absent"
       /\ (last' # last /\ Obtained(last')) =>
             /\ last'.flag = log_scale_'
             /\ IF log_scale_' = "true"
                THEN Exponentiated(last')
                ELSE last'.data = last'.scores.data]_vars

\* a later call whose curve has the other sign than the cached flag
C3_Witness ==
    /\ Obtained(last)
    /\ last.flag_before = "false"
    /\ NanMeanNegative(last.scores.data)
    /\ log_scale_ = "false"
    /\ last.data = last.scores.data

\* C4 (as claimed): every curve binarized whose mean is negative has been
\* exponentiated, every other one reaches the binarizer unchanged
C4_EveryCurveByItsMean ==
    last.returned =>
        IF NanMeanNegative(last.scores.data)
        THEN Exponentiated(last)
        ELSE last.data = last.scores.data

\* C4 (amended): the curve of the call that computes the flag is exponentiated
\* if its mean over the finite values is negative and is left unchanged
\* otherwise; a later curve is exponentiated exactly if the cached flag is
\* set.  A single-component curve reaches the binarizer with these values
C4_FirstCurveByItsMean ==
    Obtained(last) =>
        /\ last.flag_before = "absent" =>
              IF NanMeanNegative(last.scores.data)
              THEN Exponentiated(last) /\ last.flag = "true"
              ELSE last.data = last.scores.data /\ last.flag = "false"
        /\ last.flag_before = "true" => Exponentiated(last)
        /\ last.flag_before = "false" => last.data = last.scores.data
        /\ last.scores.dim = 1 => last.speech_prob.data = last.data

\* the first curve of an instance has a negative mean, and is binarized
C4_Witness ==
    /\ last.returned
    /\ last.flag_before = "absent"
    /\ NanMeanNegative(last.scores.data)
    /\ Len(last.data) > 1
    /\ last.data # last.scores.data

-----------------------------------------------------------------------------
(* The detection as a function of the hyper-parameters and of the curve:    *)
(* a pipeline is given the hyper-parameters h, initialize() is called, and  *)
(* the pipeline is called once on a file record that carries the curve.     *)

Detect(h, prob) ==
    call(FALSE, FALSE, "absent", initialize(h),
         [uri |-> "f1", sad_scores |-> prob, in_store |-> NoCurve,
          inferred |-> NoCurve]).stages

BinValues == {3, 5, 9}

\* the onsets and offsets tried, in the declared range
Thresholds == {t \in {3, 5, 7} : ThresholdMin <= t /\ t <= ThresholdMax}

\* section 8, property 7: one window per second for 10 s
Scenario ==
    SlidingWindowFeature(
        <<(<<1>>), (<<1>>), (<<9>>), (<<9>>), (<<9>>), (<<2>>), (<<2>>), (<<9>>),
          (<<9>>), (<<1>>)>>, 1, 1)

ScenarioParams == HyperParameters(5, 5, 0, 2, 0, 0)

BinCurves ==
    {SlidingWindowFeature(d, 1, 1) :
        d \in SeqsUpTo({<<v>> : v \in BinValues}, MaxLen) \ {<<>>}}
    \cup {Scenario,
          SlidingWindowFeature(<<(<<9>>), (<<NaN>>), (<<2>>)>>, 1, 1),
          SlidingWindowFeature(<<(<<NaN>>), (<<5>>), (<<NaN>>)>>, 1, 1)}

BinParams ==
    {HyperParameters(on, off, mon, moff, pon, poff) :
        on \in Thresholds, off \in Thresholds,
        mon \in DurationMin..DurationMax, moff \in DurationMin..DurationMax,
        pon \in PadMin..PadMax, poff \in PadMin..PadMax}

InitBin ==
    /\ ctor = "ok"
    /\ precomputed = FALSE
    /\ pretrained = FALSE
    /\ has_pretrained = FALSE
    /\ hp = NoBinarize
    /\ binarize = NoBinarize
    /\ log_scale_ = "absent"
    /\ last = NoCall
    /\ fx \in [hp : BinParams, prob : BinCurves]
    /\ fy = NoOutcome

Apply ==
    /\ fy.phase = "none"
    /\ fy' = [fy EXCEPT !.phase = "applied", !.out = Detect(fx.hp, fx.prob)]
    /\ UNCHANGED <<pipeVars, fx>>

\* the same curve, every hyper-parameter the same but a higher onset
RaiseOnset ==
    /\ fy.phase = "applied"
    /\ \E o \in Thresholds :
          /\ o > fx.hp.onset
          /\ LET h2 == [fx.hp EXCEPT !.onset = o]
             IN  fy' = [fy EXCEPT !.phase = "onset", !.hp2 = h2,
                                  !.out2 = Detect(h2, fx.prob)]
    /\ UNCHANGED <<pipeVars, fx>>

\* the same curve, every hyper-parameter the same but a higher offset
RaiseOffset ==
    /\ fy.phase = "applied"
    /\ \E o \in Thresholds :
          /\ o > fx.hp.offset
          /\ LET h2 == [fx.hp EXCEPT !.offset = o]
             IN  fy' = [fy EXCEPT !.phase = "offset", !.hp2 = h2,
                                  !.out2 = Detect(h2, fx.prob)]
    /\ UNCHANGED <<pipeVars, fx>>

NextBin == Apply \/ RaiseOnset \/ RaiseOffset

SpecBin == InitBin /\ [][NextBin]_vars

-----------------------------------------------------------------------------
(* Claims about the binarization *)

Applied == fy.phase = "applied"

Values == [i \in 1..Len(fx.prob.data) |-> fx.prob.data[i][1]]

Total == Len(fx.prob.data) * fx.prob.sw

ToSet(seq) == {seq[i] : i \in 1..Len(seq)}

\* the two-valued state after window i, as the claim describes it: non-speech
\* before the first window, speech entered on a value >= onset, left on a
\* value <= offset
RECURSIVE SpeechAfter(_)
SpeechAfter(i) ==
    IF i = 0 THEN FALSE
    ELSE IF SpeechAfter(i - 1)
         THEN ~(Values[i] # NaN /\ Values[i] <= fx.hp.offset)
         ELSE Values[i] # NaN /\ Values[i] >= fx.hp.onset

\* the runs of windows i..j in speech that no window in speech extends
SpeechRuns ==
    {<<i, j>> \in (1..Len(Values)) \X (1..Len(Values)) :
        /\ i <= j
        /\ \A k \in i..j : SpeechAfter(k)
        /\ ~SpeechAfter(i - 1)
        /\ j = Len(Values) \/ ~SpeechAfter(j + 1)}

Sorted(regions) ==
    \A i \in 1..(Len(regions) - 1) : Start(regions[i]) < Start(regions[i + 1])

\* C5: the candidate regions are the runs of the two-state scan: each starts
\* at the start time of the window that switched the state to speech (0 for
\* the first window) and ends at the start time of the window that switched
\* it back, or at the end of the curve
C5_Hysteresis ==
    Applied =>
        /\ ToSet(fy.out.cand) =
              {<<(r[1] - 1) * fx.prob.sw, r[2] * fx.prob.sw>> : r \in SpeechRuns}
        /\ Len(fy.out.cand) = Cardinality(SpeechRuns)
        /\ Sorted(fy.out.cand)

\* a region that starts at time 0, stays open on a value between offset and
\* onset, and a last region that ends with the curve
C5_Witness ==
    /\ Applied
    /\ fx.hp.offset < fx.hp.onset
    /\ Len(fy.out.cand) = 2
    /\ Start(fy.out.cand[1]) = 0
    /\ End(fy.out.cand[2]) = Total
    /\ \E i \in 2..Len(Values) :
          /\ SpeechAfter(i - 1) /\ SpeechAfter(i)
          /\ Values[i] > fx.hp.offset /\ Values[i] < fx.hp.onset

Gap(regions, i) == Start(regions[i + 1]) - End(regions[i])

\* padded regions i and i+1 lie in one merged region
Together(i) ==
    \E m \in ToSet(fy.out.merged) :
        /\ Start(m) <= Start(fy.out.padded[i])
        /\ End(fy.out.padded[i + 1]) <= End(m)

\* two consecutive padded regions are merged exactly if their gap is shorter
\* than min_duration_off, and nothing but the padded regions is merged
MergedIffShortGap ==
    /\ \A i \in 1..(Len(fy.out.padded) - 1) :
          Together(i) <=> Gap(fy.out.padded, i) < fx.hp.min_duration_off
    /\ Len(fy.out.merged) =
          Len(fy.out.padded) -
          Cardinality({i \in 1..(Len(fy.out.padded) - 1) :
                          Gap(fy.out.padded, i) < fx.hp.min_duration_off})
    /\ \A m \in ToSet(fy.out.merged) :
          /\ \E r \in ToSet(fy.out.padded) : Start(r) = Start(m)
          /\ \E r \in ToSet(fy.out.padded) : End(r) = End(m)

ScenarioHolds ==
    (fx.prob = Scenario /\ fx.hp = ScenarioParams) =>
        fy.out.speech = <<(<<2, 5>>), (<<7, 9>>)>>

\* C6 (as claimed): merged exactly if the gap is shorter than
\* min_duration_off, the scenario gives {[2,5), [7,9)}, and
\* min_duration_off = 0 merges nothing
C6_MergeLaw ==
    Applied =>
        /\ MergedIffShortGap
        /\ ScenarioHolds
        /\ fx.hp.min_duration_off = 0 => fy.out.merged = fy.out.padded

\* C6 (amended): as claimed, but min_duration_off = 0 still merges the padded
\* regions that overlap (their gap is negative), and only those
C6_MergeLawOverlap ==
    Applied =>
        /\ MergedIffShortGap
        /\ ScenarioHolds
        /\ fx.hp.min_duration_off = 0 =>
              /\ \A i \in 1..(Len(fy.out.padded) - 1) :
                    Together(i) <=> Gap(fy.out.padded, i) < 0
              /\ (\A i \in 1..(Len(fy.out.padded) - 1) : Gap(fy.out.padded, i) >= 0)
                    => fy.out.merged = fy.out.padded

\* the scenario: the gap of 2 s equals min_duration_off and is kept
C6_Witness ==
    /\ Applied
    /\ fx.prob = Scenario
    /\ fx.hp = ScenarioParams
    /\ Len(fy.out.padded) = 2
    /\ Gap(fy.out.padded, 1) = fx.hp.min_duration_off
    /\ fy.out.speech = fy.out.padded

\* C7: the filter acts on the merged regions: the output is the merged regions
\* that last at least min_duration_on, so every region of the output does,
\* two short regions merged into one that is long enough survive as that
\* region, and min_duration_on = 0 drops nothing
C7_FilterAfterMerge ==
    Applied =>
        /\ \A r \in ToSet(fy.out.speech) : Duration(r) >= fx.hp.min_duration_on
        /\ ToSet(fy.out.speech) =
              {m \in ToSet(fy.out.merged) : Duration(m) >= fx.hp.min_duration_on}
        /\ Len(fy.out.speech) = Cardinality(ToSet(fy.out.speech))
        /\ \A i \in 1..(Len(fy.out.padded) - 1) :
              (/\ Duration(fy.out.padded[i]) < fx.hp.min_duration_on
               /\ Duration(fy.out.padded[i + 1]) < fx.hp.min_duration_on
               /\ Gap(fy.out.padded, i) < fx.hp.min_duration_off
               /\ End(fy.out.padded[i + 1]) - Start(fy.out.padded[i])
                     >= fx.hp.min_duration_on)
              => \E r \in ToSet(fy.out.speech) :
                    /\ Start(r) <= Start(fy.out.padded[i])
                    /\ End(fy.out.padded[i + 1]) <= End(r)
        /\ fx.hp.min_duration_on = 0 => fy.out.speech = fy.out.merged

\* two regions, each too short, survive as the region they are merged into
C7_Witness ==
    /\ Applied
    /\ Len(fy.out.padded) = 2
    /\ Duration(fy.out.padded[1]) < fx.hp.min_duration_on
    /\ Duration(fy.out.padded[2]) < fx.hp.min_duration_on
    /\ Gap(fy.out.padded, 1) > 0
    /\ fy.out.speech = <<(<<Start(fy.out.padded[1]), End(fy.out.padded[2])>>)>>

\* a candidate, padded and clipped to [0, Total]
Clipped(r) ==
    <<Max(0, Min(Total, Start(r) - fx.hp.pad_onset)),
      Max(0, Min(Total, End(r) + fx.hp.pad_offset))>>

\* C8: the regions returned are sorted by start time, do not overlap, have
\* end > start and lie in [0, Total]; the padded regions are the candidates
\* padded and clipped, those left with a length of 0 or less removed
C8_WellFormed ==
    Applied =>
        /\ \A r \in ToSet(fy.out.speech) :
              0 <= Start(r) /\ Start(r) < End(r) /\ End(r) <= Total
        /\ \A i \in 1..(Len(fy.out.speech) - 1) :
              /\ Start(fy.out.speech[i]) < Start(fy.out.speech[i + 1])
              /\ End(fy.out.speech[i]) <= Start(fy.out.speech[i + 1])
        /\ ToSet(fy.out.padded) =
              {c \in {Clipped(r) : r \in ToSet(fy.out.cand)} : End(c) > Start(c)}

\* padding clipped at both ends of the curve, and a region that negative
\* padding removes
C8_Witness ==
    /\ Applied
    /\ fx.hp.pad_onset = PadMin /\ fx.hp.pad_offset = PadMax
    /\ Len(fy.out.cand) = 2
    /\ Start(fy.out.cand[1]) = 0
    /\ End(fy.out.cand[2]) = Total
    /\ Len(fy.out.padded) = 1
    /\ fy.out.speech = <<(<<Start(fy.out.cand[1]) + 1, End(fy.out.cand[1]) + 1>>)>>

\* C9 (as claimed): whatever the order of onset and offset, a curve whose
\* values are all below offset gives no region
C9_BelowOffsetEmpty ==
    (Applied /\ \A i \in 1..Len(Values) : Values[i] # NaN /\ Values[i] < fx.hp.offset)
        => fy.out.speech = <<>>

\* C9 (amended): a curve whose values are all below onset gives no region;
\* so does a curve whose values are all below offset when onset >= offset
C9_BelowOnsetEmpty ==
    Applied =>
        /\ (\A i \in 1..Len(Values) : Values[i] # NaN /\ Values[i] < fx.hp.onset)
              => fy.out.cand = <<>> /\ fy.out.speech = <<>>
        /\ (/\ fx.hp.onset >= fx.hp.offset
            /\ \A i \in 1..Len(Values) : Values[i] # NaN /\ Values[i] < fx.hp.offset)
              => fy.out.cand = <<>> /\ fy.out.speech = <<>>

\* every value is below onset, one of them is above offset, nothing is detected
C9_Witness ==
    /\ Applied
    /\ Len(Values) > 1
    /\ \A i \in 1..Len(Values) : Values[i] # NaN /\ Values[i] < fx.hp.onset
    /\ \E i \in 1..Len(Values) : Values[i] > fx.hp.offset
    /\ fy.out.speech = <<>>

TotalDuration(regions) == SeqSum([i \in 1..Len(regions) |-> Duration(regions[i])])

Raised == fy.phase \in {"onset", "offset"}

\* C10 (as claimed): for every onset and offset, raising either never
\* increases the total duration of the regions detected
C10_Monotone ==
    Raised => TotalDuration(fy.out2.speech) <= TotalDuration(fy.out.speech)

\* C10 (amended): the same, for the pairs with onset >= offset before and
\* after the threshold is raised
C10_MonotoneHysteresis ==
    (/\ Raised
     /\ fx.hp.onset >= fx.hp.offset
     /\ fy.hp2.onset >= fy.hp2.offset)
        => TotalDuration(fy.out2.speech) <= TotalDuration(fy.out.speech)

\* a higher onset, padding and merging at work, and strictly less speech
C10_Witness ==
    /\ fy.phase = "onset"
    /\ fx.hp.onset >= fx.hp.offset
    /\ fx.hp.pad_offset # 0
    /\ Len(fy.out.merged) < Len(fy.out.padded)
    /\ fy.out2.speech # <<>>
    /\ TotalDuration(fy.out2.speech) < TotalDuration(fy.out.speech)

-----------------------------------------------------------------------------
(* The pipeline with its metric factory: hyper-parameter assignments,
   initialize(), __call__ and get_metric() on one instance.  Here fx is not
   used and fy observes the operations: how many calls were made, the
   hyper-parameters the instance had when the last call was made, how many
   times get_metric was called, the evaluators it has returned, the last of
   them and the parallel flag it was asked for. *)

MaxCalls == 3

MaxMetrics == 2

\* pyannote.metrics.detection.DetectionErrorRate(...): a new object; id is
\* its identity
DetectionErrorRate(id, collar, skip_overlap, parallel) ==
    [id |-> id, collar |-> collar, skip_overlap |-> skip_overlap,
     parallel |-> parallel]

NoMetric == DetectionErrorRate(0, NaN, FALSE, FALSE)

\* one evaluator made once and handed out by every call
get_metricShared(heap, parallel) ==
    DetectionErrorRate(1, 0, FALSE, parallel)

\* get_metric(parallel): the constructor call allocates an object that is
\* none of the objects of heap
get_metric(heap, parallel) ==
    DetectionErrorRate(Cardinality(heap) + 1, 0, FALSE, parallel)

NoOps ==
    [calls |-> 0, hp |-> NoBinarize, metrics |-> 0, heap |-> {},
     metric |-> NoMetric, parallel |-> FALSE]

OpsCurves ==
    {NoCurve,
     SlidingWindowFeature(<<(<<-6>>), (<<6>>)>>, 1, 1),
     SlidingWindowFeature(<<(<<3, 6>>), (<<-20, -3>>)>>, 2, 1)}

OpsFiles ==
    [uri : {"f1"}, sad_scores : OpsCurves, in_store : {NoCurve, StoreCurve},
     inferred : {ModelCurve}]

InitOps ==
    /\ \E pa \in BOOLEAN, sa \in BOOLEAN, pr \in BOOLEAN :
          LET self == Construct(pa, sa, pr)
          IN  /\ ctor = self.ctor
              /\ precomputed = self.precomputed
              /\ pretrained = self.pretrained
              /\ has_pretrained = self.has_pretrained
    /\ hp \in PipeParams
    /\ binarize = NoBinarize
    /\ log_scale_ = "absent"
    /\ last = NoCall
    /\ fx = NoExperiment
    /\ fy = NoOps

CallOps ==
    /\ ctor = "ok"
    /\ fy.calls < MaxCalls
    /\ \E file \in OpsFiles :
          LET c == call(precomputed, has_pretrained, log_scale_, binarize, file)
          IN  /\ last' = c
              /\ log_scale_' = c.flag
    /\ fy' = [fy EXCEPT !.calls = @ + 1, !.hp = hp]
    /\ UNCHANGED <<ctor, precomputed, pretrained, has_pretrained, hp, binarize,
                   fx>>

GetMetric ==
    /\ ctor = "ok"
    /\ fy.metrics < MaxMetrics
    /\ \E parallel \in BOOLEAN :
          LET m == get_metric(fy.heap, parallel)
          IN  fy' = [fy EXCEPT !.metrics = @ + 1, !.metric = m,
                               !.heap = @ \cup {m.id}, !.parallel = parallel]
    /\ UNCHANGED <<pipeVars, fx>>

NextOps == SetParams \/ Initialize \/ CallOps \/ GetMetric

SpecOps == InitOps /\ [][NextOps]_vars

-----------------------------------------------------------------------------
(* Claims about the configuration of the binarizer *)

SameParameters(b, h) ==
    /\ b.onset = h.onset
    /\ b.offset = h.offset
    /\ b.min_duration_on = h.min_duration_on
    /\ b.min_duration_off = h.min_duration_off
    /\ b.pad_onset = h.pad_onset
    /\ b.pad_offset = h.pad_offset

\* C11 (as claimed): every call that has a curve binarizes it, and with the
\* six hyper-parameter values the instance has at the time of the call: never
\* with the values of an earlier configuration, never without a binarizer.
C11_CurrentParameters ==
    (fy.calls > 0 /\ Obtained(last)) =>
        /\ last.returned
        /\ SameParameters(last.binarizer, fy.hp)

\* C11 (amended): the binarizer holds the six values the hyper-parameters had
\* at the last initialize(): initialize() copies them, an assignment to a
\* hyper-parameter leaves the binarizer as it is, and a call that has a curve
\* binarizes it with that binarizer, or raises AttributeError and returns
\* nothing when initialize() was never called.
C11_ParametersOfLastInitialize ==
    [][/\ (binarize' # binarize) => (hp' = hp /\ SameParameters(binarize', hp))
       /\ (hp' # hp) => (binarize' = binarize)
       /\ (fy'.calls # fy.calls) =>
             /\ binarize' = binarize
             /\ Obtained(last') =>
                   IF binarize = NoBinarize
                   THEN last'.raised = "AttributeError" /\ ~last'.returned
                   ELSE /\ last'.returned
                        /\ last'.binarizer = binarize
                        /\ last'.stages = BinarizeApply(binarize, last'.speech_prob)
                        /\ last'.speech = last'.stages.speech]_vars

\* a call has returned regions computed with parameters that were not the
\* hyper-parameters of the instance when it was made
C11_Witness ==
    /\ fy.calls > 0
    /\ last.returned
    /\ ~SameParameters(last.binarizer, fy.hp)

-----------------------------------------------------------------------------
(* Claims about get_metric *)

\* C16: every call of get_metric returns a detection-error-rate evaluator with
\* collar 0, skip_overlap false and the parallel flag of the caller, which is
\* none of the evaluators returned by the earlier calls, and leaves the
\* instance as it was: hyper-parameters, binarizer, log-scale flag and the
\* configuration of the sources.
C16_PureFactory ==
    [][(fy'.metrics # fy.metrics) =>
          /\ fy'.metric.collar = 0
          /\ fy'.metric.skip_overlap = FALSE
          /\ fy'.metric.parallel = fy'.parallel
          /\ fy'.metric.id \notin fy.heap
          /\ fy'.heap = fy.heap \cup {fy'.metric.id}
          /\ hp' = hp
          /\ binarize' = binarize
          /\ log_scale_' = log_scale_
          /\ <<ctor, precomputed, pretrained, has_pretrained>>' =
                <<ctor, precomputed, pretrained, has_pretrained>>
          /\ last' = last]_vars

\* get_metric was called twice, the second time with parallel set, on an
\* instance that has a binarizer and a log-scale flag
C16_Witness ==
    /\ fy.metrics = 2
    /\ Cardinality(fy.heap) = 2
    /\ fy.metric.parallel
    /\ binarize # NoBinarize
    /\ log_scale_ # "absent"

-----------------------------------------------------------------------------
(* Claims about the curve handed to the binarizer and about failing calls *)

\* C12: the curve handed to the binarizer by a call that obtained a curve has
\* one value per window and the sliding window of the input; the value is
\* 1 minus component 0 of the sample (of the exponentiated sample if the flag
\* is set) when the samples have several components, whatever the other
\* components are, and the only component, unchanged, when they have one.
C12_OneValuePerWindow ==
    Obtained(last) =>
        LET p == last.speech_prob
            d == last.data
        IN  /\ p.sw = last.scores.sw
            /\ Len(p.data) = Len(last.scores.data)
            /\ IF last.flag = "true"
               THEN Exponentiated(last)
               ELSE d = last.scores.data
            /\ \A i \in 1..Len(p.data) :
                  /\ Len(p.data[i]) = 1
                  /\ p.data[i][1] =
                        IF last.scores.dim > 1
                        THEN (IF d[i][1] = NaN THEN NaN ELSE One - d[i][1])
                        ELSE d[i][1]

\* a call has binarized a log-scaled curve of two windows of 2 s whose
\* samples have two components
C12_Witness ==
    /\ last.returned
    /\ last.scores.dim = 2
    /\ last.scores.sw = 2
    /\ Len(last.scores.data) = 2
    /\ last.flag = "true"
    /\ last.speech_prob.data # last.scores.data

\* a curve with no window, or with no value but nan
Malformed(curve) ==
    \A i \in 1..Len(curve.data) :
        \A j \in 1..Len(curve.data[i]) : curve.data[i][j] = NaN

\* C14: a call of an initialized pipeline that obtains a malformed curve (no
\* window, or nan only) returns an empty set of regions and raises nothing,
\* whether it is the call that computes the log-scale flag or a later one; it
\* fails only as a call of any curve does, when initialize() was never called
C14_MalformedYieldsEmpty ==
    (Obtained(last) /\ Malformed(last.scores)) =>
        IF last.raised # ""
        THEN last.raised = "AttributeError" /\ last.binarizer = NoBinarize
        ELSE /\ last.returned
             /\ last.speech = <<>>
             /\ last.stages = NoStages
             /\ last.flag_before = "absent" => last.flag = "false"

\* a nan-only curve with a window was exponentiated under a flag set by an
\* earlier call, and the call returned
C14_Witness ==
    /\ last.returned
    /\ Malformed(last.scores)
    /\ Len(last.scores.data) > 0
    /\ last.flag_before = "true"
    /\ last.speech = <<>>

\* C17 (as claimed): a call that fails returns nothing and leaves the instance
\* as it was before the call: the log-scale flag (absent or its value), the
\* binarizer and the hyper-parameters
C17_FailedCallLeavesNoTrace ==
    [][(last' # last /\ last'.raised # "") =>
          /\ ~last'.returned
          /\ last'.speech = <<>>
          /\ log_scale_' = log_scale_
          /\ binarize' = binarize
          /\ hp' = hp]_vars

-----------------------------------------------------------------------------
(* Two concurrent evaluations of lines 166-175.  An evaluation is three
   steps between which the other one may run: the test of line 167
   (is the attribute log_scale_ absent), the assignment of lines 168-172 when
   the test found it absent, and the read of self.log_scale_ of line 174 that
   decides the conversion.  fx is the arrangement: "shared" (one fresh
   instance for both evaluations), "resolved" (one instance whose flag was
   set before the evaluations start) or "own" (one fresh instance for each),
   and the curve of each evaluation.  fy holds the flag of each instance, how
   many times it was assigned, and where each evaluation stands. *)

Evaluations == {1, 2}

ConcNegative ==
    {SlidingWindowFeature(<<(<<-6>>)>>, 1, 1),
     SlidingWindowFeature(<<(<<-20, -3>>), (<<3, 6>>)>>, 2, 1)}

ConcPositive ==
    {SlidingWindowFeature(<<(<<6>>)>>, 1, 1),
     SlidingWindowFeature(<<(<<3, 6>>)>>, 2, 1)}

\* the two curves: their means have opposite signs
ConcCurves ==
    {<<a, b>> : a \in ConcNegative, b \in ConcPositive}
    \cup {<<b, a>> : a \in ConcNegative, b \in ConcPositive}

Arrangements ==
    [mode : {"shared", "own"}, flag : {"absent"}, curves : ConcCurves]
    \cup [mode : {"resolved"}, flag : {"true", "false"}, curves : ConcCurves]

\* the instance an evaluation runs on
InstanceOf(x, t) == IF x.mode = "own" THEN t ELSE 1

NoEvaluation(c) ==
    [pc |-> "test", scores |-> c, seen |-> "absent", flag |-> "absent",
     data |-> <<>>]

InitConc ==
    /\ ctor = "ok"
    /\ precomputed = FALSE
    /\ pretrained = FALSE
    /\ has_pretrained = FALSE
    /\ hp \in PipeParams
    /\ binarize = initialize(hp)
    /\ log_scale_ = "absent"
    /\ last = NoCall
    /\ fx \in Arrangements
    /\ fy = [flag   |-> [i \in Evaluations |-> fx.flag],
             writes |-> [i \in Evaluations |-> 0],
             ev     |-> [t \in Evaluations |-> NoEvaluation(fx.curves[t])]]

\* line 167: not hasattr(self, 'log_scale_')
Test ==
    \E t \in Evaluations :
        /\ fy.ev[t].pc = "test"
        /\ LET seen == fy.flag[InstanceOf(fx, t)]
           IN  fy' = [fy EXCEPT !.ev[t].seen = seen,
                                !.ev[t].pc = IF seen = "absent" THEN "assign"
                                             ELSE "read"]
        /\ UNCHANGED <<pipeVars, fx>>

\* lines 168-172: self.log_scale_ = True or False, by the mean of the curve
Assign ==
    \E t \in Evaluations :
        /\ fy.ev[t].pc = "assign"
        /\ LET i == InstanceOf(fx, t)
           IN  fy' = [fy EXCEPT !.flag[i] = LogScale(fy.ev[t].seen, fy.ev[t].scores),
                                !.writes[i] = @ + 1,
                                !.ev[t].pc = "read"]
        /\ UNCHANGED <<pipeVars, fx>>

\* lines 174-175: data, by the value of self.log_scale_ read now
Read ==
    \E t \in Evaluations :
        /\ fy.ev[t].pc = "read"
        /\ LET flag == fy.flag[InstanceOf(fx, t)]
           IN  fy' = [fy EXCEPT !.ev[t].flag = flag,
                                !.ev[t].data = Convert(flag, fy.ev[t].scores),
                                !.ev[t].pc = "done"]
        /\ UNCHANGED <<pipeVars, fx>>

NextConc == Test \/ Assign \/ Read

SpecConc == InitConc /\ [][NextConc]_vars

-----------------------------------------------------------------------------
(* Claims about concurrent evaluations *)

AttachedFile(c) ==
    [uri |-> "f1", sad_scores |-> c, in_store |-> NoCurve, inferred |-> NoCurve]

\* what the two evaluations convert with and to, as <<flag, data>> of each
Outcome == [t \in Evaluations |-> <<fy.ev[t].flag, fy.ev[t].data>>]

\* the outcome of two calls made one after the other: first on the curve of
\* evaluation a, then on that of b, on the instances of the arrangement x
OneAfterTheOther(x, a, b) ==
    LET first  == call(FALSE, FALSE, x.flag, binarize, AttachedFile(x.curves[a]))
        second == call(FALSE, FALSE,
                       IF x.mode = "own" THEN x.flag ELSE first.flag,
                       binarize, AttachedFile(x.curves[b]))
    IN  [t \in Evaluations |->
            IF t = a THEN <<first.flag, first.data>>
            ELSE <<second.flag, second.data>>]

Sequential(x) == {OneAfterTheOther(x, 1, 2), OneAfterTheOther(x, 2, 1)}

AllDone == \A t \in Evaluations : fy.ev[t].pc = "done"

\* C13: on one fresh instance shared by two evaluations of curves of
\* opposite mean sign, an outcome that no order of the two calls gives comes
\* with a flag assigned more than once (the witness shows that it happens);
\* when the flag was resolved before the evaluations start, or each
\* evaluation has its own instance, every interleaving ends with the outcome
\* of the calls made one after the other and no flag is assigned twice.
C13_FlagUnsafeToShare ==
    /\ (fx.mode = "resolved") =>
          \A i \in Evaluations : fy.flag[i] = fx.flag /\ fy.writes[i] = 0
    /\ (fx.mode = "own") => \A i \in Evaluations : fy.writes[i] <= 1
    /\ (AllDone /\ fx.mode # "shared") => Outcome \in Sequential(fx)
    /\ (AllDone /\ fx.mode = "shared" /\ Outcome \notin Sequential(fx)) =>
          fy.writes[1] > 1

\* both evaluations of a shared fresh instance have found the flag absent
\* and assigned it, and each has converted its curve by its own mean: no
\* order of the two calls gives that
C13_Witness ==
    /\ fx.mode = "shared"
    /\ AllDone
    /\ fy.writes[1] = 2
    /\ fy.ev[1].flag # fy.ev[2].flag
    /\ Outcome \notin Sequential(fx)

-----------------------------------------------------------------------------
(* OracleSpeechActivityDetection.  A reference annotation is the set of its
   segments <<start, end>> (seconds, start < end).  Here fx is the file
   record and fy what the calls of the oracle did: how many were made, the
   file record after the last one and the regions it returned. *)

MaxTime == 4

MaxSegments == 3

MaxOracleCalls == 2

Segments == {r \in (0..MaxTime) \X (0..MaxTime) : r[1] < r[2]}

Annotations == {A \in SUBSET Segments : Cardinality(A) <= MaxSegments}

OracleFiles == [uri : {"f1"}, annotation : Annotations]

\* the order of the segments of a timeline: by start, then by end
Precedes(r, s) ==
    Start(r) < Start(s) \/ (Start(r) = Start(s) /\ End(r) <= End(s))

\* annotation.get_timeline(): the segments, in order
RECURSIVE get_timeline(_)
get_timeline(annotation) ==
    IF annotation = {} THEN <<>>
    ELSE LET first == CHOOSE r \in annotation :
                          \A s \in annotation : Precedes(r, s)
         IN  <<first>> \o get_timeline(annotation \ {first})

\* timeline.support(): a segment that starts before the end of the current
\* one, or at it, extends it; another one starts a new segment
RECURSIVE support_iter(_, _)
support_iter(acc, rest) ==
    IF rest = <<>> THEN acc
    ELSE LET cur == acc[Len(acc)]
             s   == Head(rest)
         IN  IF Start(s) <= End(cur)
             THEN support_iter(
                      [acc EXCEPT ![Len(acc)] = <<Start(cur), Max(End(cur), End(s))>>],
                      Tail(rest))
             ELSE support_iter(Append(acc, s), Tail(rest))

support(timeline) ==
    IF timeline = <<>> THEN <<>>
    ELSE support_iter(<<Head(timeline)>>, Tail(timeline))

\* a faulty oracle: the timeline is returned as it is
oracleTimeline(current_file) ==
    [file |-> current_file, speech |-> get_timeline(current_file.annotation)]

\* OracleSpeechActivityDetection.__call__: the file record after the call
\* and the regions returned
oracle(current_file) ==
    [file   |-> current_file,
     speech |-> support(get_timeline(current_file.annotation))]

NoOracle == [calls |-> 0, file |-> [uri |-> "", annotation |-> {}], speech |-> <<>>]

InitOracle ==
    /\ ctor = "ok"
    /\ precomputed = FALSE
    /\ pretrained = FALSE
    /\ has_pretrained = FALSE
    /\ hp \in PipeParams
    /\ binarize = NoBinarize
    /\ log_scale_ = "absent"
    /\ last = NoCall
    /\ fx \in OracleFiles
    /\ fy = NoOracle

Oracle ==
    /\ fy.calls < MaxOracleCalls
    /\ LET r == oracle(fx)
       IN  /\ fx' = r.file
           /\ fy' = [calls |-> fy.calls + 1, file |-> r.file, speech |-> r.speech]
    /\ UNCHANGED pipeVars

NextOracle == Oracle

SpecOracle == InitOracle /\ [][NextOracle]_vars

-----------------------------------------------------------------------------
(* Claims about the oracle *)

\* the seconds [t, t+1) covered by a set of segments
Covered(segments) ==
    {t \in 0..(MaxTime - 1) : \E r \in segments : Start(r) <= t /\ t < End(r)}

\* C15: the oracle returns the union of the segments of the reference
\* annotation as regions sorted by start that do not overlap ([0,2) and [1,3)
\* give the single region [0,3)); the result depends on the annotation only
\* (no threshold, nothing kept from an earlier call: a second call returns
\* the same regions) and the file record is as it was.
C15_OracleSupport ==
    fy.calls > 0 =>
        /\ fy.file = fx
        /\ fx \in OracleFiles
        /\ Sorted(fy.speech)
        /\ \A i \in 1..Len(fy.speech) : Start(fy.speech[i]) < End(fy.speech[i])
        /\ \A i \in 1..(Len(fy.speech) - 1) :
              End(fy.speech[i]) <= Start(fy.speech[i + 1])
        /\ Covered(ToSet(fy.speech)) = Covered(fx.annotation)
        /\ fx.annotation = {<<0, 2>>, <<1, 3>>} => fy.speech = <<(<<0, 3>>)>>

\* the oracle was called twice on the annotation {[0,2), [1,3)}
C15_Witness ==
    /\ fy.calls = 2
    /\ fx.annotation = {<<0, 2>>, <<1, 3>>}
    /\ fy.speech = <<(<<0, 3>>)>>

====
